---- MODULE Spec2Model ----
(***************************************************************************)
(* BlockLedger: the Blockchain class (blockchain.py) and the Flask request *)
(* handlers that drive one process-wide instance of it (app.py).           *)
(*                                                                         *)
(* Strings are sequences of integers.  A SHA-256 hex digest is modelled as *)
(* an injective image of the hashed string whose first element is the      *)
(* number of leading '0' characters of the digest, capped at difficulty.   *)
(***************************************************************************)
EXTENDS Integers, Sequences, FiniteSets, TLC

\* ------------------------------------------------------------ bounds ----
NThreads == 2        \* concurrent request handlers of the Flask server
MaxTx == 2           \* submissions accepted during one process lifetime
MaxClock == 1        \* readings of datetime.now() are 0..MaxClock
MaxFileLen == 2      \* records an externally written file may hold
MaxNonce == 4        \* last nonce the proof-of-work search is followed to

\* ------------------------------------------------- program constants ----
difficulty == 4

Threads == 1..NThreads
MainThread == 1
EventTypes == {1}

\* delimiters of the JSON text of a transaction list
LBracket == 90
RBracket == 91
LBrace == 92
RBrace == 93

VARIABLES
    chain,                  \* Blockchain.chain
    pending_transactions,   \* Blockchain.pending_transactions
    file,                   \* blockchain_data.json
    now,                    \* the clock read by datetime.now()
    pc,                     \* position of each request handler
    previous_block,         \* mine_block local, per handler
    nonce,                  \* proof_of_work local, per handler
    new_block,              \* mine_block local, per handler
    resp,                   \* the response / return value produced last
    submitted,              \* history: transactions submitted to this process
    promised,               \* history: index returned for the k-th submission
    mine_log                \* history: per handler, facts about its mine

vars == <<chain, pending_transactions, file, now, pc, previous_block, nonce,
          new_block, resp, submitted, promised, mine_log>>

\* ------------------------------------------------------- strings --------
RECURSIVE SumSeq(_)
SumSeq(s) == IF s = <<>> THEN 0 ELSE Head(s) + SumSeq(Tail(s))

RECURSIVE Concat(_)
Concat(ss) == IF ss = <<>> THEN <<>> ELSE Head(ss) \o Concat(Tail(ss))

\* datetime.now(): seconds and microseconds of the clock reading
DatetimeNow(n) == [s |-> n \div 2, us |-> n % 2]

\* str(datetime): the fraction is printed only when microsecond # 0
DatetimeStr(d) == IF d.us = 0 THEN <<d.s>> ELSE <<d.s, d.us>>

\* datetime.isoformat(): same rule as str(), 'T' separator
IsoFormat(d) == IF d.us = 0 THEN <<d.s>> ELSE <<d.s, d.us>>

\* datetime.fromisoformat accepts "S" and "S.ffffff", raises otherwise
IsIsoFormat(s) == Len(s) \in {1, 2}

\* variant of FromIsoFormat: the fraction of the second is dropped
FromIsoFormat_NoFraction(s) == [s |-> s[1], us |-> 0]

FromIsoFormat(s) ==
    IF Len(s) = 1 THEN [s |-> s[1], us |-> 0] ELSE [s |-> s[1], us |-> s[2]]

\* json.dumps(transactions, sort_keys=True): keys in sorted order
JsonTx(tx) == <<LBrace, tx.details, tx.event_type>> \o tx.timestamp \o <<RBrace>>

JsonDumps(txs) ==
    <<LBracket>> \o Concat([i \in 1..Len(txs) |-> JsonTx(txs[i])]) \o <<RBracket>>

\* ------------------------------------------------------- hashing --------
\* number of leading '0' characters of the digest of s, capped at difficulty
LeadingZeros(s) == (SumSeq(s) + Len(s)) % (difficulty + 1)

\* hashlib.sha256(s.encode()).hexdigest()
Sha256(s) == <<LeadingZeros(s)>> \o s

\* h.startswith('0' * self.difficulty)
StartsWithZeros(h) == h[1] = difficulty

\* the previous_hash "0" of the genesis block
ZeroHash == <<0>>

\* Block.calculate_hash
calculate_hash(b) ==
    Sha256(<<b.index>> \o DatetimeStr(b.timestamp) \o JsonDumps(b.transactions)
           \o b.previous_hash \o <<b.nonce>>)

\* Block.__init__
Block(index, timestamp, transactions, previous_hash, n) ==
    LET b == [index |-> index, timestamp |-> timestamp,
              transactions |-> transactions, previous_hash |-> previous_hash,
              nonce |-> n, hash |-> <<>>]
    IN  [b EXCEPT !.hash = calculate_hash(b)]

\* Block.to_dict
to_dict(b) ==
    [index |-> b.index, timestamp |-> DatetimeStr(b.timestamp),
     transactions |-> b.transactions, previous_hash |-> b.previous_hash,
     nonce |-> b.nonce, hash |-> b.hash]

\* keys Block.from_dict subscripts; 'hash' is not among them
RequiredKeys == {"index", "timestamp", "transactions", "previous_hash", "nonce"}

\* Block.from_dict raises KeyError / ValueError
FromDictRaises(d) ==
    \/ ~(RequiredKeys \subseteq DOMAIN d)
    \/ ~IsIsoFormat(d.timestamp)

\* Block.from_dict
from_dict(d) ==
    Block(d.index, FromIsoFormat(d.timestamp), d.transactions,
          d.previous_hash, d.nonce)

\* Blockchain.proof_of_work: the digest tested for one candidate nonce
GuessHash(previous_hash, n) == Sha256(previous_hash \o <<n>>)

\* the search has not returned within the nonces the model follows it for
NoNonce == -1

\* variant of SearchWithin: the nonce is incremented once more on success
RECURSIVE SearchWithin_OffByOne(_, _, _)
SearchWithin_OffByOne(previous_hash, n, last) ==
    IF StartsWithZeros(GuessHash(previous_hash, n)) THEN n + 1
    ELSE IF n >= last THEN NoNonce
    ELSE SearchWithin_OffByOne(previous_hash, n + 1, last)

\* Blockchain.proof_of_work: the loop from candidate n on, followed up to
\* candidate last
RECURSIVE SearchWithin(_, _, _)
SearchWithin(previous_hash, n, last) ==
    IF StartsWithZeros(GuessHash(previous_hash, n)) THEN n
    ELSE IF n >= last THEN NoNonce
    ELSE SearchWithin(previous_hash, n + 1, last)

SearchFrom(previous_hash, n) == SearchWithin(previous_hash, n, MaxNonce)

proof_of_work(previous_hash) == SearchFrom(previous_hash, 0)

\* variant of GenesisBlock: the nonce of genesis comes from the search
GenesisBlock_Mined(n) ==
    LET b == Block(0, DatetimeNow(n), <<>>, ZeroHash, proof_of_work(ZeroHash))
    IN  [b EXCEPT !.hash = calculate_hash(b)]

\* Blockchain.create_genesis_block: Block(0, now, [], "0", 0) through
\* mine_block(new_block), which recomputes the hash and returns the block
GenesisBlock(n) ==
    LET b == Block(0, DatetimeNow(n), <<>>, ZeroHash, 0)
    IN  [b EXCEPT !.hash = calculate_hash(b)]

\* ------------------------------------------------------ validation ------
Verdict(v, r) == [valid |-> v, reason |-> r]

\* variant of ValidateFrom: the link to the previous block is not checked
RECURSIVE ValidateFrom_NoLink(_, _)
ValidateFrom_NoLink(c, i) ==
    IF i > Len(c) THEN Verdict(TRUE, "None")
    ELSE IF c[i].hash # calculate_hash(c[i]) THEN Verdict(FALSE, "HashMismatch")
    ELSE IF ~StartsWithZeros(c[i].hash) THEN Verdict(FALSE, "PoWUnsatisfied")
    ELSE ValidateFrom_NoLink(c, i + 1)

\* Blockchain.is_chain_valid: the loop from (1-based) position i on
RECURSIVE ValidateFrom(_, _)
ValidateFrom(c, i) ==
    IF i > Len(c) THEN Verdict(TRUE, "None")
    ELSE IF c[i].hash # calculate_hash(c[i]) THEN Verdict(FALSE, "HashMismatch")
    ELSE IF c[i].previous_hash # c[i-1].hash THEN Verdict(FALSE, "LinkMismatch")
    ELSE IF ~StartsWithZeros(c[i].hash) THEN Verdict(FALSE, "PoWUnsatisfied")
    ELSE ValidateFrom(c, i + 1)

is_chain_valid(c) == ValidateFrom(c, 2)

\* ------------------------------------------------------ persistence -----
NoFile == [exists |-> FALSE, parse_ok |-> FALSE, data |-> <<>>]
GarbageFile == [exists |-> TRUE, parse_ok |-> FALSE, data |-> <<>>]
JsonFile(recs) == [exists |-> TRUE, parse_ok |-> TRUE, data |-> recs]

\* Blockchain.save_chain: the file content written
save_chain(c) == JsonFile([i \in 1..Len(c) |-> to_dict(c[i])])

\* the list comprehension of load_chain: blocks built so far, and whether
\* from_dict raised on some record
RECURSIVE LoadBlocks(_, _, _)
LoadBlocks(data, i, acc) ==
    IF i > Len(data) THEN [raised |-> FALSE, blocks |-> acc]
    ELSE IF FromDictRaises(data[i]) THEN [raised |-> TRUE, blocks |-> acc]
    ELSE LoadBlocks(data, i + 1, Append(acc, from_dict(data[i])))

\* variant of load_chain: self.chain is filled record by record, so a
\* failure keeps the blocks built before it
load_chain_Partial(c, f) ==
    IF ~f.exists THEN [ok |-> FALSE, chain |-> c]
    ELSE IF ~f.parse_ok THEN [ok |-> FALSE, chain |-> c]
    ELSE LET r == LoadBlocks(f.data, 1, <<>>)
         IN  [ok |-> ~r.raised, chain |-> r.blocks]

\* Blockchain.load_chain: return value and the chain it leaves
load_chain(c, f) ==
    IF ~f.exists THEN [ok |-> FALSE, chain |-> c]
    ELSE IF ~f.parse_ok THEN [ok |-> FALSE, chain |-> c]
    ELSE LET r == LoadBlocks(f.data, 1, <<>>)
         IN  IF r.raised THEN [ok |-> FALSE, chain |-> c]
             ELSE [ok |-> TRUE, chain |-> r.blocks]

\* ------------------------------------------------------ responses -------
NoResp == [kind |-> "none"]
NoOpResp == [kind |-> "noop"]
ErrorResp == [kind |-> "error"]
IndexResp(i) == [kind |-> "index", index |-> i]
BlockResp(b) == [kind |-> "block", block |-> b]
ValidResp(v) == [kind |-> "valid", verdict |-> v]
LoadResp(ok) == [kind |-> "load", ok |-> ok]
ChainResp(c) ==
    [kind |-> "chain", chain |-> [i \in 1..Len(c) |-> to_dict(c[i])],
     length |-> Len(c)]
PendingResp(q) == [kind |-> "pending", pending_transactions |-> q, count |-> Len(q)]

\* get_latest_block raised: new_transaction returned no index
NoIndex == -1

NoBlock == [index |-> 0, timestamp |-> DatetimeNow(0), transactions |-> <<>>,
            previous_hash |-> ZeroHash, nonce |-> 0, hash |-> <<>>]
NoLog == [len0 |-> 0, pool0 |-> <<>>, during |-> {}, others |-> FALSE]

\* ------------------------------------------------------ initial state ---
\* app.py module initialisation with no data file on disk
Init ==
    /\ now = 0
    /\ chain = <<GenesisBlock(0)>>
    /\ pending_transactions = <<>>
    /\ file = NoFile
    /\ pc = [t \in Threads |-> "idle"]
    /\ previous_block = [t \in Threads |-> NoBlock]
    /\ nonce = [t \in Threads |-> 0]
    /\ new_block = [t \in Threads |-> NoBlock]
    /\ resp = NoResp
    /\ submitted = {}
    /\ promised = <<>>
    /\ mine_log = [t \in Threads |-> NoLog]

Mining(t) == pc[t] \in {"m_pow", "m_copy", "m_clear", "m_save"}

\* ------------------------------------------------------ actions ---------
\* the clock advances; readings of datetime.now() differ between process
\* lifetimes and are equal within the requests of one lifetime
Tick ==
    /\ now < MaxClock
    /\ submitted = {}
    /\ \A t \in Threads : pc[t] = "idle"
    /\ now' = now + 1
    /\ UNCHANGED <<chain, pending_transactions, file, pc, previous_block,
                   nonce, new_block, resp, submitted, promised, mine_log>>

\* variant of NewTransaction: the Blocks under construction hold the pool
\* list itself, which the append extends
NewTransaction_Aliased(t, e) ==
    /\ pc[t] = "idle"
    /\ Cardinality(submitted) < MaxTx
    /\ LET tx == [details |-> Cardinality(submitted) + 1, event_type |-> e,
                  timestamp |-> IsoFormat(DatetimeNow(now))]
       IN  /\ pending_transactions' = Append(pending_transactions, tx)
           /\ submitted' = submitted \cup {tx}
           /\ promised' = Append(promised,
                  IF chain = <<>> THEN NoIndex ELSE chain[Len(chain)].index + 1)
           /\ mine_log' = [u \in Threads |->
                  IF Mining(u)
                  THEN [mine_log[u] EXCEPT !.during = @ \cup {tx}]
                  ELSE mine_log[u]]
    /\ resp' = IF chain = <<>> THEN ErrorResp
                ELSE IndexResp(chain[Len(chain)].index + 1)
    /\ new_block' = [u \in Threads |->
           IF pc[u] = "m_clear"
           THEN [new_block[u] EXCEPT !.transactions =
                    Append(@, [details |-> Cardinality(submitted) + 1,
                               event_type |-> e,
                               timestamp |-> IsoFormat(DatetimeNow(now))])]
           ELSE new_block[u]]
    /\ UNCHANGED <<chain, file, now, pc, previous_block, nonce>>

\* add_transaction_endpoint -> Blockchain.new_transaction
NewTransaction(t, e) ==
    /\ pc[t] = "idle"
    /\ Cardinality(submitted) < MaxTx
    /\ LET tx == [details |-> Cardinality(submitted) + 1, event_type |-> e,
                  timestamp |-> IsoFormat(DatetimeNow(now))]
       IN  /\ pending_transactions' = Append(pending_transactions, tx)
           /\ submitted' = submitted \cup {tx}
           /\ promised' = Append(promised,
                  IF chain = <<>> THEN NoIndex ELSE chain[Len(chain)].index + 1)
           /\ mine_log' = [u \in Threads |->
                  IF Mining(u)
                  THEN [mine_log[u] EXCEPT !.during = @ \cup {tx}]
                  ELSE mine_log[u]]
    /\ resp' = IF chain = <<>> THEN ErrorResp
                ELSE IndexResp(chain[Len(chain)].index + 1)
    /\ UNCHANGED <<chain, file, now, pc, previous_block, nonce, new_block>>

\* variant of MineCheck: the endpoint mines without testing the pool
MineCheck_NoTest(t) ==
    /\ pc[t] = "idle"
    /\ pc' = [pc EXCEPT ![t] = "m_pow"]
    /\ UNCHANGED resp
    /\ mine_log' = [mine_log EXCEPT ![t] =
           [len0 |-> Len(chain), pool0 |-> pending_transactions,
            during |-> {}, others |-> \E v \in Threads \ {t} : Mining(v)]]
    /\ UNCHANGED <<chain, pending_transactions, file, now, previous_block,
                   nonce, new_block, submitted, promised>>

\* mine_block_endpoint: the emptiness test of the pool
MineCheck(t) ==
    /\ pc[t] = "idle"
    /\ IF pending_transactions = <<>>
       THEN /\ resp' = NoOpResp
            /\ UNCHANGED <<pc, mine_log>>
       ELSE /\ pc' = [pc EXCEPT ![t] = "m_pow"]
            /\ UNCHANGED resp
            /\ mine_log' = [u \in Threads |->
                   IF u = t
                   THEN [len0 |-> Len(chain), pool0 |-> pending_transactions,
                         during |-> {},
                         others |-> \E v \in Threads \ {t} : Mining(v)]
                   ELSE IF Mining(u)
                   THEN [mine_log[u] EXCEPT !.others = TRUE]
                   ELSE mine_log[u]]
    /\ UNCHANGED <<chain, pending_transactions, file, now, previous_block,
                   nonce, new_block, submitted, promised>>

\* mine_block: previous_block = self.get_latest_block() and the
\* proof_of_work search on its hash, which touches no shared state
MinePow(t) ==
    /\ pc[t] = "m_pow"
    /\ IF chain = <<>>
       THEN /\ pc' = [pc EXCEPT ![t] = "idle"]
            /\ resp' = ErrorResp
            /\ mine_log' = [mine_log EXCEPT ![t] = NoLog]
            /\ UNCHANGED <<previous_block, nonce>>
       ELSE /\ proof_of_work(chain[Len(chain)].hash) # NoNonce
            /\ pc' = [pc EXCEPT ![t] = "m_copy"]
            /\ previous_block' = [previous_block EXCEPT ![t] = chain[Len(chain)]]
            /\ nonce' = [nonce EXCEPT ![t] = proof_of_work(chain[Len(chain)].hash)]
            /\ UNCHANGED <<resp, mine_log>>
    /\ UNCHANGED <<chain, pending_transactions, file, now, new_block,
                   submitted, promised>>

\* mine_block: new_block = Block(..., list(self.pending_transactions), ...)
MineCopy(t) ==
    /\ pc[t] = "m_copy"
    /\ new_block' = [new_block EXCEPT ![t] =
           Block(previous_block[t].index + 1, DatetimeNow(now),
                 pending_transactions, previous_block[t].hash, nonce[t])]
    /\ pc' = [pc EXCEPT ![t] = "m_clear"]
    /\ UNCHANGED <<chain, pending_transactions, file, now, previous_block,
                   nonce, resp, submitted, promised, mine_log>>

\* mine_block: self.pending_transactions = []; the hash is recomputed and
\* the block returned to the endpoint
MineClear(t) ==
    /\ pc[t] = "m_clear"
    /\ pending_transactions' = <<>>
    /\ new_block' = [new_block EXCEPT ![t] =
           [new_block[t] EXCEPT !.hash = calculate_hash(new_block[t])]]
    /\ pc' = [pc EXCEPT ![t] = "m_save"]
    /\ UNCHANGED <<chain, file, now, previous_block, nonce, resp, submitted,
                   promised, mine_log>>

\* mine_block_endpoint: save_chain(blockchain_file), then the response
MineSave(t) ==
    /\ pc[t] = "m_save"
    /\ file' = save_chain(chain)
    /\ resp' = BlockResp(new_block[t])
    /\ pc' = [pc EXCEPT ![t] = "idle"]
    /\ previous_block' = [previous_block EXCEPT ![t] = NoBlock]
    /\ nonce' = [nonce EXCEPT ![t] = 0]
    /\ new_block' = [new_block EXCEPT ![t] = NoBlock]
    /\ mine_log' = [mine_log EXCEPT ![t] = NoLog]
    /\ UNCHANGED <<chain, pending_transactions, now, submitted, promised>>

\* is_valid_endpoint -> Blockchain.is_chain_valid
IsValid(t) ==
    /\ pc[t] = "idle"
    /\ resp' = ValidResp(is_chain_valid(chain))
    /\ UNCHANGED <<chain, pending_transactions, file, now, pc, previous_block,
                   nonce, new_block, submitted, promised, mine_log>>

\* get_chain
GetChain(t) ==
    /\ pc[t] = "idle"
    /\ resp' = ChainResp(chain)
    /\ UNCHANGED <<chain, pending_transactions, file, now, pc, previous_block,
                   nonce, new_block, submitted, promised, mine_log>>

\* get_pending_transactions_endpoint
GetPending(t) ==
    /\ pc[t] = "idle"
    /\ resp' = PendingResp(pending_transactions)
    /\ UNCHANGED <<chain, pending_transactions, file, now, pc, previous_block,
                   nonce, new_block, submitted, promised, mine_log>>

\* the process is restarted: app.py module initialisation, which builds a
\* new Blockchain and loads the data file when it exists
Restart ==
    /\ UNCHANGED <<file, now>>
    /\ pending_transactions' = <<>>
    /\ submitted' = {}
    /\ promised' = <<>>
    /\ pc' = [t \in Threads |-> "idle"]
    /\ previous_block' = [t \in Threads |-> NoBlock]
    /\ nonce' = [t \in Threads |-> 0]
    /\ new_block' = [t \in Threads |-> NoBlock]
    /\ mine_log' = [t \in Threads |-> NoLog]
    /\ LET fresh == <<GenesisBlock(now)>>
           loaded == load_chain(fresh, file)
       IN  /\ chain' = IF file.exists THEN loaded.chain ELSE fresh
           /\ resp' = IF file.exists THEN LoadResp(loaded.ok) ELSE NoResp

Handler(t) ==
    \/ \E e \in EventTypes : NewTransaction(t, e)
    \/ MineCheck(t)
    \/ MinePow(t)
    \/ MineCopy(t)
    \/ MineClear(t)
    \/ MineSave(t)
    \/ IsValid(t)

Next ==
    \/ Tick
    \/ Restart
    \/ \E t \in Threads : Handler(t)

Spec == Init /\ [][Next]_vars

\* the routes of one running process, the two read-only routes included
NextRead ==
    \E t \in Threads :
        \/ Handler(t)
        \/ GetChain(t)
        \/ GetPending(t)

SpecRead == Init /\ [][NextRead]_vars

\* ------------------------------------------------ direct calls ----------
\* Blockchain.load_chain called on the live instance
LoadChain(t) ==
    /\ pc[t] = "idle"
    /\ UNCHANGED <<pending_transactions, file, now, pc, previous_block, nonce,
                   new_block, submitted, promised, mine_log>>
    /\ LET loaded == load_chain(chain, file)
       IN  /\ resp' = LoadResp(loaded.ok)
           /\ chain' = loaded.chain

\* chain[i].nonce is assigned in memory, the hash attribute left alone
TamperMemory(i) ==
    /\ i \in 1..Len(chain)
    /\ chain[i].hash = calculate_hash(chain[i])
    /\ chain' = [chain EXCEPT ![i].nonce = (@ + 1) % (MaxNonce + 1)]
    /\ UNCHANGED <<pending_transactions, file, now, pc, previous_block, nonce,
                   new_block, resp, submitted, promised, mine_log>>

\* ------------------------------------------------ data files ------------
\* a transaction as another writer of the file format recorded it
ForeignTx == [details |-> 9, event_type |-> 1, timestamp |-> <<0>>]

\* chains of n linked blocks, as a writer of the file format may hold them
RECURSIVE LinkedChains(_)
LinkedChains(n) ==
    IF n = 1 THEN {<<GenesisBlock(k)>> : k \in 0..MaxClock}
    ELSE {Append(c, Block(n - 1, DatetimeNow(0), <<ForeignTx>>, c[n-1].hash, m)) :
             c \in LinkedChains(n - 1), m \in 0..MaxNonce}

\* the stored hash of a record matches its content
RecordIntact(r) ==
    /\ RequiredKeys \cup {"hash"} \subseteq DOMAIN r
    /\ IsIsoFormat(r.timestamp)
    /\ r.hash = calculate_hash(from_dict(r))

EditKinds == {"nonce", "dropkey", "badtimestamp"}

\* one record after an edit of the file by hand; the stored hash is kept
EditRecord(r, kind) ==
    IF kind = "nonce" THEN [r EXCEPT !.nonce = (@ + 1) % (MaxNonce + 1)]
    ELSE IF kind = "badtimestamp" THEN [r EXCEPT !.timestamp = <<>>]
    ELSE [index |-> r.index, timestamp |-> r.timestamp,
          transactions |-> r.transactions,
          previous_hash |-> r.previous_hash, hash |-> r.hash]

SavedFiles ==
    {save_chain(c) : c \in UNION {LinkedChains(n) : n \in 1..MaxFileLen}}

EditedFiles ==
    UNION {{[f EXCEPT !.data[i] = EditRecord(f.data[i], kind)] :
               i \in 1..Len(f.data), kind \in EditKinds} : f \in SavedFiles}

\* what blockchain_data.json may hold when the library is started on it
FileInputs ==
    {NoFile, GarbageFile, JsonFile(<<>>)} \cup SavedFiles \cup EditedFiles

\* a fresh Blockchain next to a data file of any content
InitEnv ==
    /\ now = 0
    /\ chain = <<GenesisBlock(0)>>
    /\ pending_transactions = <<>>
    /\ file \in FileInputs
    /\ pc = [t \in Threads |-> "idle"]
    /\ previous_block = [t \in Threads |-> NoBlock]
    /\ nonce = [t \in Threads |-> 0]
    /\ new_block = [t \in Threads |-> NoBlock]
    /\ resp = NoResp
    /\ submitted = {}
    /\ promised = <<>>
    /\ mine_log = [t \in Threads |-> NoLog]

NextEnv ==
    \/ NewTransaction(MainThread, 1)
    \/ IsValid(MainThread)
    \/ LoadChain(MainThread)
    \/ \E i \in 1..MaxFileLen : TamperMemory(i)

\* the library driven by one caller on a data file of any content
SpecEnv == InitEnv /\ [][NextEnv]_vars

\* ------------------------------------------------ properties ------------
InSeq(x, q) == \E i \in 1..Len(q) : q[i] = x

Occurrences(x, q) == Cardinality({i \in 1..Len(q) : q[i] = x})

Others(t) == Threads \ {t}

\* handler t has returned from mine_block and no other request overlapped it
MinedAlone(t) ==
    /\ pc[t] = "m_save"
    /\ ~mine_log[t].others
    /\ mine_log[t].during = {}
    /\ \A u \in Others(t) : pc[u] = "idle"

\* C1: a mine started with a non-empty pool appends exactly one Block: the
\* chain is one longer, its last Block is the new one with index = previous
\* index + 1 and previous_hash = previous hash, holding the pool contents
\* in submission order, and the pool is empty
C1_MineAppendsBlock ==
    \A t \in Threads :
        MinedAlone(t) =>
            /\ Len(chain) = mine_log[t].len0 + 1
            /\ chain[Len(chain)] = new_block[t]
            /\ new_block[t].index = previous_block[t].index + 1
            /\ new_block[t].previous_hash = previous_block[t].hash
            /\ new_block[t].transactions = mine_log[t].pool0
            /\ pending_transactions = <<>>

\* C4: mining with an empty pool answers NoOp, creates no Block and leaves
\* chain, pool and file unchanged; after a mine that nothing overlapped the
\* pool is empty, so the next mine is such a NoOp
C4_EmptyPoolNoOp ==
    /\ [][\A t \in Threads :
            (pc[t] = "idle" /\ pending_transactions = <<>> /\ MineCheck(t)) =>
                /\ resp' = NoOpResp
                /\ pc'[t] = "idle"
                /\ new_block' = new_block
                /\ chain' = chain
                /\ pending_transactions' = pending_transactions
                /\ file' = file]_vars
    /\ [](\A t \in Threads : MinedAlone(t) => pending_transactions = <<>>)

\* C4 witness: a mine has just answered NoOp right after a completed mine
C4_Witness ==
    /\ resp = NoOpResp
    /\ file.exists
    /\ submitted # {}
    /\ pending_transactions = <<>>
    /\ \A t \in Threads : pc[t] = "idle"

\* C5: when a mine request completes, the file's last record is the newly
\* mined Block
C5_FileHoldsMinedBlock ==
    [][\A t \in Threads :
          MineSave(t) =>
              /\ file'.data # <<>>
              /\ file'.data[Len(file'.data)] = to_dict(new_block[t])]_vars

BlocksHolding(tx) == {i \in 1..Len(chain) : InSeq(tx, chain[i].transactions)}

\* C7: every submitted transaction is in exactly one place, the pool or
\* exactly one Block of the chain
C7_TransactionInOnePlace ==
    \A tx \in submitted :
        Occurrences(tx, pending_transactions) + Cardinality(BlocksHolding(tx)) = 1

\* C2: a transaction submitted while a mine is in flight is, once the mine
\* has returned, in the Block that mine produced or in the pool, exactly once
C2_SubmissionNotLost ==
    \A t \in Threads :
        (pc[t] = "m_save" /\ ~mine_log[t].others) =>
            \A tx \in mine_log[t].during :
                Occurrences(tx, new_block[t].transactions)
                    + Occurrences(tx, pending_transactions) = 1

\* some record of the file has content that its stored hash does not match
Tampered(f) ==
    /\ f.exists /\ f.parse_ok
    /\ \E i \in 1..Len(f.data) :
          /\ ~FromDictRaises(f.data[i])
          /\ "hash" \in DOMAIN f.data[i]
          /\ f.data[i].hash # calculate_hash(from_dict(f.data[i]))

\* C3: after loading a file in which a record's content was changed and its
\* stored hash kept, validate returns false with reason HashMismatch
C3_TamperDetectedAfterLoad ==
    [][\A t \in Threads :
          (/\ IsValid(t)
           /\ resp = LoadResp(TRUE)
           /\ chain = load_chain(chain, file).chain
           /\ Tampered(file))
          => resp' = ValidResp(Verdict(FALSE, "HashMismatch"))]_vars

\* the records and the blocks agree on index, transactions, previous_hash
\* and nonce, position by position
SameContent(data, c) ==
    /\ Len(data) = Len(c)
    /\ \A i \in 1..Len(c) :
          /\ data[i].index = c[i].index
          /\ data[i].transactions = c[i].transactions
          /\ data[i].previous_hash = c[i].previous_hash
          /\ data[i].nonce = c[i].nonce

\* C8: save writes the chain's blocks field by field, and loading that file
\* gives blocks with the same index, transactions, previous_hash and nonce
\* whose recomputed hash is the hash stored in the file
C8_RoundTrip ==
    [][/\ \A t \in Threads :
            (pc[t] = "m_save" /\ pc'[t] = "idle" /\ MineSave(t)) =>
                /\ SameContent(file'.data, chain)
                /\ \A i \in 1..Len(chain) : file'.data[i].hash = chain[i].hash
       /\ (file.exists /\ Restart) =>
                /\ resp' = LoadResp(TRUE)
                /\ SameContent(file.data, chain')
                /\ \A i \in 1..Len(chain') : chain'[i].hash = file.data[i].hash]_vars

\* C8 witness: a chain whose genesis timestamp has a fraction was saved and
\* loaded back by a new process
C8_Witness ==
    /\ resp = LoadResp(TRUE)
    /\ file.exists
    /\ Len(chain) = Len(file.data)
    /\ chain[1].timestamp.us # 0
    /\ chain[1].hash = file.data[1].hash

\* load_chain cannot build the chain from this file
LoadFails(f) ==
    \/ ~f.exists
    \/ ~f.parse_ok
    \/ \E i \in 1..Len(f.data) : FromDictRaises(f.data[i])

\* C9: a failed load leaves chain and pool as they were and returns False
C9_FailedLoadKeepsState ==
    [][\A t \in Threads :
          (LoadFails(file) /\ LoadChain(t)) =>
              /\ chain' = chain
              /\ pending_transactions' = pending_transactions
              /\ resp' = LoadResp(FALSE)]_vars

\* C9 witness: a load failed on the second record, after the first one was
\* reconstructed, with transactions pending
C9_Witness ==
    /\ resp = LoadResp(FALSE)
    /\ pending_transactions # <<>>
    /\ file.parse_ok
    /\ Len(file.data) = 2
    /\ ~FromDictRaises(file.data[1])
    /\ FromDictRaises(file.data[2])
    /\ chain # <<from_dict(file.data[1])>>

HashOk(c, i) == c[i].hash = calculate_hash(c[i])
LinkOk(c, i) == c[i].previous_hash = c[i-1].hash
PowOk(c, i) == StartsWithZeros(c[i].hash)
Passes(c, i) == HashOk(c, i) /\ LinkOk(c, i) /\ PowOk(c, i)

\* the reason of the first failing check at the lowest failing position
ExpectedReason(c) ==
    LET i == CHOOSE k \in 2..Len(c) :
                 ~Passes(c, k) /\ \A j \in 2..(k - 1) : Passes(c, j)
    IN  IF ~HashOk(c, i) THEN "HashMismatch"
        ELSE IF ~LinkOk(c, i) THEN "LinkMismatch"
        ELSE "PoWUnsatisfied"

LandsAtPromised(tx) ==
    /\ promised[tx.details] # NoIndex
    /\ promised[tx.details] + 1 <= Len(chain)
    /\ chain[promised[tx.details] + 1].index = promised[tx.details]
    /\ InSeq(tx, chain[promised[tx.details] + 1].transactions)

\* C11: submit appends the transaction at the end of the pool, leaves the
\* chain unchanged and returns chain.length; at the next successful mine
\* the transaction is in the Block of the chain with exactly that index
C11_SubmitLandsAtReturnedIndex ==
    /\ [][\A t \in Threads : \A e \in EventTypes :
             NewTransaction(t, e) =>
                 /\ Len(pending_transactions') = Len(pending_transactions) + 1
                 /\ SubSeq(pending_transactions', 1, Len(pending_transactions))
                        = pending_transactions
                 /\ chain' = chain
                 /\ resp' = IndexResp(Len(chain))]_vars
    /\ [](\A t \in Threads :
             MinedAlone(t) =>
                 \A i \in 1..Len(mine_log[t].pool0) :
                     LandsAtPromised(mine_log[t].pool0[i]))

\* a Blockchain as __init__ leaves it
FreshlyInitialized ==
    /\ Len(chain) = 1
    /\ pending_transactions = <<>>
    /\ chain[1].index = 0
    /\ chain[1].previous_hash = ZeroHash
    /\ chain[1].transactions = <<>>
    /\ chain[1].nonce = 0
    /\ chain[1].hash = calculate_hash(chain[1])

\* C12: a freshly initialized chain has length 1 and an empty pool; its one
\* Block has index 0, previous_hash "0", no transactions, nonce 0 (the
\* proof-of-work search is not run for it) and the hash of those fields
C12_GenesisInvariant ==
    /\ FreshlyInitialized
    /\ [][(~file.exists /\ Restart) => FreshlyInitialized']_vars

C12_Witness ==
    /\ ~file.exists
    /\ now > 0
    /\ chain = <<GenesisBlock(now)>>
    /\ proof_of_work(ZeroHash) # 0
    /\ pending_transactions = <<>>
    /\ submitted = {}

\* handler t has built its Block from the pool
HoldsBlock(t) == pc[t] \in {"m_clear", "m_save"}

\* handler t holds the nonce proof_of_work returned to mine_block
HoldsNonce(t) == pc[t] \in {"m_copy", "m_clear", "m_save"}

\* C13: the nonce mine chooses satisfies the difficulty predicate on the
\* digest of previous_hash+nonce, validate tests the full-content hash, and
\* so validate run after an honest mine whose Block's full-content hash
\* lacks the difficulty prefix answers false with reason PoW not satisfied
C13_DualHash ==
    /\ [](\A t \in Threads :
             HoldsNonce(t) =>
                 StartsWithZeros(GuessHash(previous_block[t].hash, nonce[t])))
    /\ [][\A t \in Threads :
             (/\ resp.kind = "block"
              /\ ~StartsWithZeros(resp.block.hash)
              /\ \A u \in Threads : pc[u] = "idle"
              /\ IsValid(t)) =>
                 resp' = ValidResp(Verdict(FALSE, "PoWUnsatisfied"))]_vars

\* nonce n satisfies the difficulty predicate for previous_hash
Satisfies(previous_hash, n) == StartsWithZeros(GuessHash(previous_hash, n))

\* C14: proof_of_work tries 0, 1, 2, ... in order and returns the least
\* nonce whose digest has the difficulty prefix; it returns exactly when
\* such a nonce exists; the nonce of every mined Block is that least nonce
\* for the Block's previous_hash
C14_LeastNonce ==
    /\ [][\A t \in Threads :
             (pc'[t] = "m_copy" /\ MinePow(t)) =>
                 LET h == chain[Len(chain)].hash
                 IN  /\ previous_block'[t].hash = h
                     /\ nonce'[t] = proof_of_work(h)
                     /\ nonce'[t] >= 0
                     /\ Satisfies(h, nonce'[t])
                     /\ \A m \in 0..(nonce'[t] - 1) : ~Satisfies(h, m)
                     /\ \A last \in 0..MaxNonce :
                            (SearchWithin(h, 0, last) # NoNonce)
                                <=> \E m \in 0..last : Satisfies(h, m)]_vars
    /\ [](\A t \in Threads :
             HoldsBlock(t) =>
                 /\ new_block[t].nonce = nonce[t]
                 /\ new_block[t].previous_hash = previous_block[t].hash)

C14_Witness ==
    \E t \in Threads :
        /\ pc[t] = "m_save"
        /\ new_block[t].nonce > 0
        /\ new_block[t].transactions # <<>>

\* C15: two mine requests running at once never put one transaction in two
\* Blocks and never build two Blocks with the same index or the same
\* previous_hash
C15_ConcurrentMinesDisjoint ==
    \A t \in Threads : \A u \in Others(t) :
        (HoldsBlock(t) /\ HoldsBlock(u)) =>
            /\ \A i \in 1..Len(new_block[t].transactions) :
                   ~InSeq(new_block[t].transactions[i], new_block[u].transactions)
            /\ new_block[t].index # new_block[u].index
            /\ new_block[t].previous_hash # new_block[u].previous_hash

\* sequence p is an initial part of sequence q
IsPrefix(p, q) == Len(p) <= Len(q) /\ SubSeq(q, 1, Len(p)) = p

\* C16: submit, mine, validate, get_chain, get_pending and save never change,
\* remove or reorder a Block of the chain: the chain before each of them is
\* a prefix of the chain after it; and a submit leaves the transactions of
\* every Block already built as they were
C16_AppendOnly ==
    [][/\ IsPrefix(chain, chain')
       /\ \A t \in Threads : \A e \in EventTypes :
              NewTransaction(t, e) =>
                  \A u \in Threads :
                      HoldsBlock(u) =>
                          new_block'[u].transactions = new_block[u].transactions]_vars

C16_Witness ==
    \E t \in Threads :
        /\ HoldsBlock(t)
        /\ new_block[t].transactions # <<>>
        /\ \E tx \in mine_log[t].during : ~InSeq(tx, new_block[t].transactions)
        /\ resp.kind = "index"

\* C17: the chain is never empty: after any sequence of submit, mine, save
\* and load, a successful load of any parseable file included, the chain
\* has at least one Block, so get_latest_block is defined and submit does
\* not fail
C17_ChainNeverEmpty ==
    /\ Len(chain) >= 1
    /\ resp # ErrorResp

\* C18: every Block mining builds has a non-empty transactions list under
\* any interleaving of submit and mine requests: the pool found non-empty
\* by the endpoint is still non-empty when it is copied into the Block
C18_MinedBlockNotEmpty ==
    \A t \in Threads :
        HoldsBlock(t) => new_block[t].transactions # <<>>

====
